---- MODULE Spec2Model ----
(***************************************************************************)
(* The ratchet session protocol of the legacy crypto module                *)
(* (src/unnamed/part_007, src/js/crypto.js): two devices running the code, *)
(* "A" (the initiator, who holds B's prekey bundle) and "B" (the           *)
(* responder), their key/session stores, the wire between them and the     *)
(* operations encryptMessageFor / handleIncomingPushMessageProto as the    *)
(* chains of asynchronous continuations the code builds.                   *)
(*                                                                         *)
(* Cryptographic values are symbolic terms (strings): HmacSHA256, ECDHE    *)
(* and AES-CTR are injective constructors, ECDHE is commutative.  The      *)
(* JavaScript value undefined is a term of its own: the code reads         *)
(* properties that do not exist and feeds the result to the primitives.    *)
(***************************************************************************)
EXTENDS Integers, Sequences, FiniteSets, TLC

(* ------------------------------ bounds -------------------------------- *)
MaxOps == 2          \* operations in flight at once
MaxOverlap == 1      \* operations started while another one is in flight
MaxSend == 3         \* encryptMessageFor calls
MaxInject == 1       \* wire messages made by the network (forged or tampered)
MaxDeliver == 3      \* handleIncomingPushMessageProto calls
MaxSessionCalls == 2  \* calls in flight at once on the session store
MaxVersion == 2       \* saves of one session
RetSend == 2          \* encryptMessageFor calls in RetentionSpec
RetInject == 2        \* forged wire messages in RetentionSpec
RotDeliver == 4       \* handleIncomingPushMessageProto calls in RotationSpec
RetentionCap == 1     \* the cap on retired chains, at the scale of the model
MaxProcesses == 3     \* connectResource calls of the SocketManager
MaxPushSockets == 3   \* WebSockets subscribeToPush makes
MaxSubscribe == 2     \* subscribeToPush calls of the application
MaxAccountTasks == 2  \* AccountManager tasks running at once (after a task timeout)
MaxTasks == 3         \* AccountManager tasks started
MaxList == 3          \* numbers in one sendMessageToNumbers call
MaxRequests == 2      \* incoming requests on authenticated sockets
MaxCounter == 1      \* largest counter / previousCounter of a network-made message

(* --------------------------- program values --------------------------- *)
\* 0xffffffff, the counter of the chain that "isnt an actual ratchet"; TLC's
\* integers are 32-bit signed, so the sentinel is the largest of those. Every
\* counter of the model is far below it, as every uint32 is <= 0xffffffff.
PlaceholderCounter == 2147483647

\* JavaScript's undefined where the code uses it as a number (chain.counter).
JsUndefined == -2

\* iv: CryptoJS.enc.Latin1.parse("") in decryptAESCTR.
EmptyIV == -1

Undefined == "undefined"
Garbage == "garbage"
ZeroSalt == "zeros32"

Party == {"A", "B"}
Peer(p) == IF p = "A" THEN "B" ELSE "A"

\* pushMessageContent of the n-th encryptMessageFor call: every call gets a
\* plaintext of its own.
Plaintext(n) == "plaintext" \o ToString(n)

\* getStoredKeyPair("identityKey"): key pairs are numbers, pubKey and privKey
\* of a pair share the number.
IdentityKey(p) == IF p = "A" THEN 1 ELSE 2

\* B's one-time prekeys as generateKeys stored them: "preKey" + keyId.
PreKeyIds == {1, 2}
PreKeyPair(keyId) == 10 + keyId

\* Ephemeral keys that no device of the model generated.
ForeignKeys == {90}

\* A prekey id the responder never stored.
UnknownPreKeyIds == {3}

Min(a, b) == IF a <= b THEN a ELSE b
Max(a, b) == IF a <= b THEN b ELSE a

(* ----------------------------- primitives ----------------------------- *)
HmacSHA256(key, input) == "h(" \o key \o "," \o input \o ")"

ECDHE(pubKey, privKey) ==
    "dh(" \o ToString(Min(pubKey, privKey)) \o "," \o ToString(Max(pubKey, privKey)) \o ")"

\* crypto_tests.HKDF: exactly two outputs, the info followed by 0 and by 1.
crypto_tests_HKDF(input, salt, info) ==
    LET PRK == HmacSHA256(salt, input)
        T1 == HmacSHA256(PRK, info \o "0")
        T2 == HmacSHA256(PRK, T1 \o info \o "1")
    IN <<T1, T2>>

HKDF(input, salt, info) ==
    crypto_tests_HKDF(input, IF salt = "" THEN ZeroSalt ELSE salt, info)

\* The (cipherKey, macKey) pair of a message key.
MessageKeysOf(messageKey) == HKDF(messageKey, "", "WhisperMessageKeys")

\* a < b and a + b as JavaScript evaluates them when an operand may be
\* undefined (NaN).
JsLess(a, b) == a # JsUndefined /\ b # JsUndefined /\ a < b
JsPlus(a, b) == IF a = JsUndefined \/ b = JsUndefined THEN JsUndefined ELSE a + b

\* object[key] for a key the object may lack.
Lookup(object, key) == IF key \in DOMAIN object THEN object[key] ELSE Undefined

\* chain.counter as doEncryptPushMessageContent reads it: a chain is
\* { messageKeys, chainKey: { counter, key } } and has no such property.
chain_counter(chain) == JsUndefined

(* ------------------------------ sessions ------------------------------ *)
EmptyMap == <<>>

NoSession ==
    [open |-> FALSE, rootKey |-> "", ephemeralKeyPair |-> 0,
     lastRemoteEphemeralKey |-> 0, chains |-> EmptyMap, oldRatchetList |-> <<>>]

NewChain(counter, key) == [counter |-> counter, key |-> key, messageKeys |-> EmptyMap]

Remove(f, k) == [x \in DOMAIN f \ {k} |-> f[x]]

\* SharedSecret with the responder appending like the initiator.
UnmirroredSecret(isInitiator, ourEphemeralKey, ourIdentityKey, theirIdentityPubKey, theirEphemeralPubKey) ==
    ECDHE(theirEphemeralPubKey, ourIdentityKey)
    \o ECDHE(theirIdentityPubKey, ourEphemeralKey)
    \o ECDHE(theirEphemeralPubKey, ourEphemeralKey)

\* The secret initSession accumulates: ECDHE(theirEphemeral, ourIdentity)
\* first, ECDHE(theirIdentity, ourEphemeral) appended (initiator) or
\* prepended (responder), ECDHE(theirEphemeral, ourEphemeral) last.
SharedSecret(isInitiator, ourEphemeralKey, ourIdentityKey, theirIdentityPubKey, theirEphemeralPubKey) ==
    LET s1 == ECDHE(theirEphemeralPubKey, ourIdentityKey)
        s2 == ECDHE(theirIdentityPubKey, ourEphemeralKey)
    IN (IF isInitiator THEN s1 \o s2 ELSE s2 \o s1)
       \o ECDHE(theirEphemeralPubKey, ourEphemeralKey)

\* The session initSession builds and saves.
initSession(isInitiator, ourEphemeralKey, ourIdentityKey, theirIdentityPubKey, theirEphemeralPubKey) ==
    LET masterKey == HKDF(SharedSecret(isInitiator, ourEphemeralKey, ourIdentityKey,
                                       theirIdentityPubKey, theirEphemeralPubKey),
                          "", "WhisperText")
    IN [open |-> TRUE,
        rootKey |-> masterKey[1],
        ephemeralKeyPair |-> ourEphemeralKey,
        lastRemoteEphemeralKey |-> theirEphemeralPubKey,
        chains |-> (theirEphemeralPubKey :> NewChain(PlaceholderCounter, ""))
                   @@ (ourEphemeralKey :> NewChain(-1, masterKey[2])),
        oldRatchetList |-> <<>>]

(* ------------------------------- state -------------------------------- *)
VARIABLES
    session,     \* session[p]: the session p's store holds for its peer
    preKeys,     \* the prekey ids B's store holds a key pair for
    ops,         \* ops[i]: an operation in flight (its closure), or idle
    net,         \* the wire messages made so far
    results,     \* what the callbacks of handleIncomingPushMessageProto received
    errors,      \* the exceptions thrown: <<party, message id, what>>
    nextKey,     \* the next key pair createNewKeyPair returns
    nextId,      \* the next wire-message id
    nSend, nInject, nDeliver, nOverlap,
    aesUndefined \* the counter block window.crypto.subtle makes of counter: undefined

cryptoVars == <<session, preKeys, ops, net, results, errors, nextKey, nextId, nSend, nInject,
                nDeliver, nOverlap, aesUndefined>>

(* ---------------- the session store, keyed by encoded number ----------- *)
\* An encoded number is a string "number" or "number.deviceId"; the model
\* holds it as what split(".") makes of it.
Numbers == {"+1", "+2"}
DeviceIds == {"1", "2"}
EncodedNumbers == {<<n>> : n \in Numbers} \cup {<<n, d>> : n \in Numbers, d \in DeviceIds}

\* getEncodedNumber dropping the device id of every device.
withoutDeviceId(number) == <<number[1]>>

\* getEncodedNumber(number): device 1 is written without its suffix.
getEncodedNumber(number) ==
    LET split == number
    IN IF Len(split) > 1
       THEN IF split[2] = "1" THEN <<split[1]>> ELSE number
       ELSE number

\* getDeviceId(encodedNumber): the suffix, device 1 when there is none.
getDeviceId(encodedNumber) ==
    LET split == encodedNumber
    IN IF Len(split) > 1 THEN split[2] ELSE "1"

\* The device an encoded number names.
DeviceOf(encodedNumber) == <<encodedNumber[1], getDeviceId(encodedNumber)>>

VARIABLES
    localStorage,  \* the items under "esession" + key: key -> stored session
    sessionCalls   \* the encrypt / decrypt calls in flight on the store

storeVars == <<localStorage, sessionCalls>>

SessionCallIds == 1 .. MaxSessionCalls

IdleCall == [pc |-> "idle", encodedNumber |-> <<>>, session |-> 0]

\* crypto_storage.getSession(encodedNumber) on the items ls; 0 is undefined.
getSession(ls, encodedNumber) ==
    LET key == getEncodedNumber(encodedNumber)
    IN IF key \in DOMAIN ls THEN ls[key] ELSE 0

\* crypto_storage.saveSession(encodedNumber, session) on the items ls.
saveSession(ls, encodedNumber, s) ==
    LET key == getEncodedNumber(encodedNumber)
    IN [k \in DOMAIN ls \cup {key} |-> IF k = key THEN s ELSE ls[k]]

(* ------------------- SocketManager (authenticated socket) -------------- *)
Credentials == {1, 2}
Handlers == {"h1", "h2"}
ProcessIds == 1 .. MaxProcesses

\* The close codes a socket reports: 3000 is the manager's own close.
CloseCodes == {1006, 3000}

\* What a connection attempt can fail with: the connect timer
\* (ConnectTimeoutError, no HTTPError), or an HTTPError with its code
\* (connectFailed gives code -1; 401 stands for 401 and 403, which the
\* manager treats alike; 404 stands for every other code).
ConnectErrors == {"timeout", "http-1", "http500", "http401", "http404"}

VARIABLES
    credentials,           \* this.credentials, 0 when undefined
    authenticated,         \* this.authenticated: a process id, 0 when undefined
    status,                \* this.status
    requestHandlers,       \* this.requestHandlers
    incomingRequestQueue,  \* this.incomingRequestQueue
    isOffline,             \* this.isOffline
    backOff,               \* this.backOff: index of the next timeout
    processes,             \* the AbortableProcess of every connectResource call
    sleeping,              \* reconnect() calls waiting in sleep(timeout)
    handled,               \* handled[h]: the requests handler h received, in order
    failedAsserts,         \* the strictAssert messages that failed
    lastDrop,              \* what the last dropAuthenticated followed
    queueHistory,          \* the queued requests handed to handlers, and those discarded
    nextProcess, nextRequest

socketVars == <<credentials, authenticated, status, requestHandlers, incomingRequestQueue,
                isOffline, backOff, processes, sleeping, handled, failedAsserts, lastDrop,
                queueHistory, nextProcess, nextRequest>>

\* A process: the connection attempt and, once connected, its socket.
\* closing is the code resource.close was called with, 0 when it was not.
\* lastDrop when no process was dropped since the last connectResource.
NoDrop == [kind |-> "none", code |-> 0, err |-> ""]

NoProcess == [state |-> "unused", aborted |-> FALSE, closing |-> 0, via |-> ""]

(* --------------------------- subscribeToPush --------------------------- *)
PushSocketIds == 1 .. MaxPushSockets

VARIABLES
    subscribeToPushMessageSemaphore,
    pushSockets,   \* pushSockets[k]: the k-th WebSocket subscribeToPush made
    pushTimers,    \* setTimeout(subscribeToPush, 60000) calls not yet fired
    nextPushSocket,
    nSubscribe     \* subscribeToPush calls of the application

pushVars == <<subscribeToPushMessageSemaphore, pushSockets, pushTimers, nextPushSocket,
              nSubscribe>>

(* ------------------------- sendMessageToNumbers ------------------------ *)
SendNumbers == {"+1", "+2", "+3"}

\* The lists of distinct numbers, one to MaxList long.
NumberLists ==
    {l \in UNION {[1 .. n -> SendNumbers] : n \in 1 .. MaxList} :
        \A i, j \in DOMAIN l : i # j => l[i] # l[j]}

VARIABLES
    sendNumbers,        \* the numbers of the running sendMessageToNumbers call, <<>> before it
    number,             \* var number of the call: one variable for all loop turns
    deviceObjects,      \* the numbers the store holds device objects for
    numbersCompleted,
    sendErrors,         \* errors: the numbers of its entries, in order
    successfulNumbers,
    sendPending,        \* the requests whose callback has not run yet
    callbackCalls       \* the calls of the final callback

sendVars == <<sendNumbers, number, deviceObjects, numbersCompleted, sendErrors,
              successfulNumbers, sendPending, callbackCalls>>

(* ---------------------------- AccountManager --------------------------- *)
AccountTaskIds == 1 .. MaxAccountTasks

\* The signed prekey ids the model's tasks can reach: signedKeyId starts at 1.
SignedKeyIds == 1 .. (MaxTasks + 1)

MINIMUM_SIGNED_PREKEYS == 5

VARIABLES
    signedKeyId,     \* storage item 'signedKeyId'
    signedPreKeys,   \* the signed prekey store: keyId -> [keyPair, confirmed]
    uploaded,        \* <<keyId, keyPair>> of the uploads the server accepted
    rejected,        \* <<keyId, keyPair>> of the uploads that failed
    accountTasks,    \* the tasks queueTask started and that still run
    nextKeyPair,
    nTasks

accountVars == <<signedKeyId, signedPreKeys, uploaded, rejected, accountTasks, nextKeyPair,
                 nTasks>>

\* No signed prekey stored under an id.
NoSignedPreKey == [keyPair |-> 0, confirmed |-> FALSE]

\* A task slot: settled when the promise queueTask returned has settled
\* (the task ended, or its timeout passed) and the queue can go on.
IdleTask ==
    [kind |-> "", pc |-> "idle", keyId |-> 0, keyPair |-> 0, settled |-> TRUE,
     stored |-> FALSE, upload |-> ""]

vars == <<cryptoVars, storeVars, socketVars, pushVars, sendVars, accountVars>>

\* What the steps of one component leave alone.
notCrypto == <<storeVars, socketVars, pushVars, sendVars, accountVars>>
notStore == <<cryptoVars, socketVars, pushVars, sendVars, accountVars>>
notSocket == <<cryptoVars, storeVars, pushVars, sendVars, accountVars>>
notPush == <<cryptoVars, storeVars, socketVars, sendVars, accountVars>>
notSend == <<cryptoVars, storeVars, socketVars, pushVars, accountVars>>
notAccount == <<cryptoVars, storeVars, socketVars, pushVars, sendVars>>

OpIds == 1 .. MaxOps

NoFill == [on |-> FALSE, chain |-> 0, target |-> 0]

BlankMsg ==
    [id |-> 0, src |-> "", dst |-> "", type |-> 1, outerOk |-> TRUE, versionOk |-> TRUE,
     ephemeralKey |-> 0, counter |-> 0, previousCounter |-> 0,
     pt |-> "", key |-> "", macKey |-> "", iv |-> 0, tampered |-> "",
     preKeyId |-> 0, baseKey |-> 0, identityKey |-> 0]

IdleOp ==
    [pc |-> "idle", party |-> "", pt |-> "", m |-> BlankMsg, s |-> NoSession,
     base |-> NoSession, hk |-> "", err |-> "", fillPrev |-> NoFill, fillMsg |-> NoFill,
     viaPreKey |-> FALSE, baseKey |-> 0, at |-> 0]

\* The first idle slot: which slot an operation takes is not state of the program.
FreeSlot(i) == ops[i].pc = "idle" /\ \A j \in OpIds : j < i => ops[j].pc # "idle"

\* An operation starts; the model bounds how often one starts while another
\* has not finished.
Start(i) ==
    /\ FreeSlot(i)
    /\ IF \E j \in OpIds : ops[j].pc # "idle"
       THEN nOverlap < MaxOverlap /\ nOverlap' = nOverlap + 1
       ELSE nOverlap' = nOverlap

Init ==
    /\ session = [p \in Party |-> NoSession]
    /\ preKeys = PreKeyIds
    /\ ops = [i \in OpIds |-> IdleOp]
    /\ net = {}
    /\ results = {}
    /\ errors = {}
    /\ nextKey = 20
    /\ nextId = 1
    /\ nSend = 0 /\ nInject = 0 /\ nDeliver = 0 /\ nOverlap = 0
    /\ aesUndefined \in {EmptyIV, JsUndefined}
    /\ localStorage = <<>>
    /\ sessionCalls = [i \in SessionCallIds |-> IdleCall]
    /\ credentials = 0
    /\ authenticated = 0
    /\ status = "CLOSED"
    /\ requestHandlers = {}
    /\ incomingRequestQueue = <<>>
    /\ isOffline = FALSE
    /\ backOff = 0
    /\ processes = [p \in ProcessIds |-> NoProcess]
    /\ sleeping = 0
    /\ handled = [h \in Handlers |-> <<>>]
    /\ failedAsserts = {}
    /\ lastDrop = NoDrop
    /\ queueHistory = [drained |-> {}, discarded |-> {}]
    /\ nextProcess = 1
    /\ nextRequest = 1
    /\ subscribeToPushMessageSemaphore = 1
    /\ pushSockets = [k \in PushSocketIds |-> "none"]
    /\ pushTimers = 0
    /\ nextPushSocket = 1
    /\ nSubscribe = 0
    /\ sendNumbers = <<>>
    /\ number = ""
    /\ deviceObjects = {}
    /\ numbersCompleted = 0
    /\ sendErrors = <<>>
    /\ successfulNumbers = <<>>
    /\ sendPending = {}
    /\ callbackCalls = 0
    /\ signedKeyId = 1
    /\ signedPreKeys = [k \in SignedKeyIds |-> NoSignedPreKey]
    /\ uploaded = {}
    /\ rejected = {}
    /\ accountTasks = [i \in AccountTaskIds |-> IdleTask]
    /\ nextKeyPair = 1
    /\ nTasks = 0

(* --------------------------- encryptMessageFor ------------------------ *)
\* crypto.encryptMessageFor up to its first asynchronous call. With a stored
\* session: doEncryptPushMessageContent, where fillMessageKeys(chain,
\* chain.counter + 1) compares against NaN and returns the empty promise, and
\* HKDF is called on chain.messageKeys[undefined]. Without one (A only, the
\* holder of a prekey bundle, deviceObject.preKeyId being any id B published):
\* a new base key and initSession(true, ...).
EncryptBegin(p, i, keyId) ==
    /\ nSend < MaxSend
    /\ Start(i)
    /\ \/ /\ session[p].open
          /\ LET chain == session[p].chains[session[p].ephemeralKeyPair]
             IN /\ ~JsLess(chain.counter, JsPlus(chain_counter(chain), 1))
                /\ ops' = [ops EXCEPT ![i] =
                             [IdleOp EXCEPT !.pc = "encHkdf", !.party = p, !.pt = Plaintext(nSend + 1),
                                            !.s = session[p], !.base = session[p],
                                            !.hk = Lookup(chain.messageKeys, chain_counter(chain))]]
          /\ UNCHANGED nextKey
       \/ /\ ~session[p].open
          /\ p = "A"
          /\ ops' = [ops EXCEPT ![i] =
                       [IdleOp EXCEPT !.pc = "encInit", !.party = p, !.pt = Plaintext(nSend + 1),
                                      !.m = [BlankMsg EXCEPT !.preKeyId = keyId],
                                      !.viaPreKey = TRUE, !.baseKey = nextKey]]
          /\ nextKey' = nextKey + 1
    /\ nSend' = nSend + 1
    /\ UNCHANGED <<session, preKeys, net, results, errors, nextId, nInject, nDeliver, aesUndefined, notCrypto>>

\* initSession's HKDF resolved: the session is saved, read back, and
\* doEncryptPushMessageContent starts on it.
EncryptInitDone(i) ==
    LET o == ops[i]
        s == initSession(TRUE, o.baseKey, IdentityKey(o.party),
                         IdentityKey(Peer(o.party)), PreKeyPair(o.m.preKeyId))
    IN /\ o.pc = "encInit"
       /\ session' = [session EXCEPT ![o.party] = s]
       /\ ops' = [ops EXCEPT ![i] =
                    [o EXCEPT !.pc = "encHkdf", !.s = s, !.base = s,
                              !.hk = Lookup(s.chains[s.ephemeralKeyPair].messageKeys,
                                            chain_counter(s.chains[s.ephemeralKeyPair]))]]
       /\ UNCHANGED <<preKeys, net, results, errors, nextKey, nextId, nSend, nInject, nDeliver, nOverlap, aesUndefined, notCrypto>>

\* encryptAESCTR(input, key, counter): the counter block is made of the
\* counter; of counter: undefined the platform makes what it does (aesUndefined).
CounterBlock(counter) == IF counter = JsUndefined THEN aesUndefined ELSE counter

\* The message doEncryptPushMessageContent builds from the closure o.
EncryptedMessage(o, id, iv) ==
    LET keys == MessageKeysOf(o.hk)
    IN [BlankMsg EXCEPT
          !.id = id, !.src = o.party, !.dst = Peer(o.party),
          !.type = IF o.viaPreKey THEN 3 ELSE 1,
          !.ephemeralKey = o.s.ephemeralKeyPair,
          !.counter = chain_counter(o.s.chains[o.s.ephemeralKeyPair]),
          !.previousCounter = 1,
          !.pt = o.pt, !.key = keys[1], !.iv = iv, !.macKey = keys[2],
          !.preKeyId = o.m.preKeyId,
          !.baseKey = o.baseKey,
          !.identityKey = IF o.viaPreKey THEN IdentityKey(o.party) ELSE 0]

\* HKDF, encryptAESCTR and calculateMACWithVersionByte resolved: the session
\* of the closure is saved and the wire message handed to the callback.
EncryptDone(i) ==
    LET o == ops[i]
    IN /\ o.pc = "encHkdf"
       /\ net' = net \cup {EncryptedMessage(o, nextId,
                                CounterBlock(chain_counter(o.s.chains[o.s.ephemeralKeyPair])))}
       /\ session' = [session EXCEPT ![o.party] = o.s]
       /\ nextId' = nextId + 1
       /\ ops' = [ops EXCEPT ![i] = IdleOp]
       /\ UNCHANGED <<preKeys, results, errors, nextKey, nSend, nInject, nDeliver, nOverlap, aesUndefined, notCrypto>>


(* --------------------- handleIncomingPushMessageProto ------------------ *)
\* fillMessageKeys(chain, counter).then(f): the promise the caller waits on is
\* the one of the first HmacSHA256 alone (the inner .then is not returned), so
\* f runs before any key is stored. TRUE when that first HmacSHA256 is made.
FillNeeded(chain, counter) == JsLess(chain.counter, counter)

\* One turn of fillMessageKeys's inner continuation on a chain.
FillOnce(chain) ==
    [counter |-> chain.counter + 1,
     key |-> HmacSHA256(chain.key, "2"),
     messageKeys |-> ((chain.counter + 1) :> HmacSHA256(chain.key, "1")) @@ chain.messageKeys]

\* decryptWhisperMessage from maybeStepRatchet's callback on: the chain of the
\* message's ephemeral key is filled up to the message's counter, and the
\* continuation takes chain.messageKeys[message.counter] as it is by then.
MessageFillStart(o) ==
    LET chain == o.s.chains[o.m.ephemeralKey]
    IN IF FillNeeded(chain, o.m.counter)
       THEN [o EXCEPT !.pc = "fillMsg"]
       ELSE [o EXCEPT !.pc = "decHkdf", !.hk = Lookup(chain.messageKeys, o.m.counter)]

\* RatchetArchive leaving the local chain in the session.
RatchetArchiveKeepsLocal(o, fillRunning) ==
    LET s == o.s
        last == s.lastRemoteEphemeralKey
        kept == DOMAIN s.chains[last].messageKeys # {}
    IN [o EXCEPT
          !.pc = "hkdf1",
          !.s = [s EXCEPT !.chains = IF kept THEN @ ELSE Remove(@, last),
                          !.oldRatchetList = IF kept THEN Append(@, last) ELSE @],
          !.fillPrev = IF fillRunning /\ kept
                       THEN [on |-> TRUE, chain |-> last, target |-> o.m.previousCounter]
                       ELSE NoFill]

\* maybeStepRatchet after the previous chain's fill promise resolved: the
\* previous chain is deleted or archived, the local chain deleted, and the
\* first HKDF of the step is under way.
RatchetArchive(o, fillRunning) ==
    LET s == o.s
        last == s.lastRemoteEphemeralKey
        kept == DOMAIN s.chains[last].messageKeys # {}
        chains1 == IF kept THEN s.chains ELSE Remove(s.chains, last)
    IN [o EXCEPT
          !.pc = "hkdf1",
          !.s = [s EXCEPT !.chains = Remove(chains1, s.ephemeralKeyPair),
                          !.oldRatchetList = IF kept THEN Append(@, last) ELSE @],
          !.fillPrev = IF fillRunning /\ kept
                       THEN [on |-> TRUE, chain |-> last, target |-> o.m.previousCounter]
                       ELSE NoFill]

\* decryptWhisperMessage without the test of the version byte.
decryptAnyVersion(o, s) ==
    IF ~s.open THEN [o EXCEPT !.pc = "thrown", !.err = "No session"]
    ELSE LET o1 == [o EXCEPT !.s = s, !.base = s]
         IN IF o.m.ephemeralKey \in DOMAIN s.chains
            THEN MessageFillStart(o1)
            ELSE IF FillNeeded(s.chains[s.lastRemoteEphemeralKey], o.m.previousCounter)
                 THEN [o1 EXCEPT !.pc = "fillPrev"]
                 ELSE RatchetArchive(o1, FALSE)

\* The synchronous part of decryptWhisperMessage(encodedNumber, messageBytes)
\* for the closure o on the session s read from the store.
decryptWhisperMessage(o, s) ==
    IF ~s.open THEN [o EXCEPT !.pc = "thrown", !.err = "No session"]
    ELSE IF ~o.m.versionOk THEN [o EXCEPT !.pc = "thrown", !.err = "Bad version number"]
    ELSE LET o1 == [o EXCEPT !.s = s, !.base = s]
         IN IF o.m.ephemeralKey \in DOMAIN s.chains
            THEN MessageFillStart(o1)
            ELSE IF FillNeeded(s.chains[s.lastRemoteEphemeralKey], o.m.previousCounter)
                 THEN [o1 EXCEPT !.pc = "fillPrev"]
                 ELSE RatchetArchive(o1, FALSE)

\* An operation's closure after a synchronous part: kept while it waits,
\* dropped (and the exception recorded) when the part threw.
Settle(i, o) ==
    /\ ops' = [ops EXCEPT ![i] = IF o.pc = "thrown" THEN IdleOp ELSE o]
    /\ errors' = IF o.pc = "thrown"
                 THEN errors \cup {[party |-> o.party, id |-> o.m.id, what |-> o.err]}
                 ELSE errors

\* getStoredKeyPair finding a key pair whatever the id.
AnyPreKey(p, keyId) == TRUE

\* getStoredKeyPair("preKey" + keyId) on p's store: only B generated prekeys.
HasPreKey(p, keyId) == p = "B" /\ keyId \in preKeys

\* storage.removeEncrypted(key): its body is a TODO.
removeEncrypted(stored, keyId) == stored

\* crypto.handleIncomingPushMessageProto(proto) up to its first asynchronous
\* call, for a wire message m addressed to m.dst.
DeliverUpTo(limit, m, i) ==
    LET p == m.dst
        o == [IdleOp EXCEPT !.party = p, !.m = m, !.at = nDeliver + 1]
    IN /\ nDeliver < limit
       /\ Start(i)
       /\ nDeliver' = nDeliver + 1
       /\ IF m.type = 1
          THEN /\ Settle(i, decryptWhisperMessage(o, session[p]))
               /\ UNCHANGED preKeys
          ELSE IF ~m.outerOk
          THEN /\ Settle(i, [o EXCEPT !.pc = "thrown", !.err = "Bad version byte"])
               /\ UNCHANGED preKeys
          ELSE IF ~HasPreKey(p, m.preKeyId)
          THEN /\ Settle(i, [o EXCEPT !.pc = "thrown", !.err = "Missing preKey"])
               /\ UNCHANGED preKeys
          ELSE /\ Settle(i, [o EXCEPT !.pc = "decInit"])
               /\ preKeys' = removeEncrypted(preKeys, m.preKeyId)
       /\ UNCHANGED <<session, net, results, nextKey, nextId, nSend, nInject, aesUndefined, notCrypto>>

Deliver(m, i) == DeliverUpTo(MaxDeliver, m, i)

\* initSession's HKDF resolved on the responder: the new session is saved
\* and decryptWhisperMessage runs on the embedded message.
DecryptInitDone(i) ==
    LET o == ops[i]
        s == initSession(FALSE, PreKeyPair(o.m.preKeyId), IdentityKey(o.party),
                         o.m.identityKey, o.m.baseKey)
    IN /\ o.pc = "decInit"
       /\ session' = [session EXCEPT ![o.party] = s]
       /\ Settle(i, decryptWhisperMessage(o, s))
       /\ UNCHANGED <<preKeys, net, results, nextKey, nextId, nSend, nInject, nDeliver, nOverlap, aesUndefined, notCrypto>>

\* The first HmacSHA256 of the previous chain's fill resolved: the inner
\* HmacSHA256 starts and maybeStepRatchet's continuation runs.
FillPrevResolved(i) ==
    /\ ops[i].pc = "fillPrev"
    /\ ops' = [ops EXCEPT ![i] = RatchetArchive(ops[i], TRUE)]
    /\ UNCHANGED <<session, preKeys, net, results, errors, nextKey, nextId, nSend, nInject, nDeliver, nOverlap, aesUndefined, notCrypto>>

\* HKDF(sharedSecret, rootKey, "WhisperRatchet") resolved: the receive chain,
\* a new local key pair and the second HKDF.
RatchetReceive(i) ==
    LET o == ops[i]
        s == o.s
        masterKey == HKDF(ECDHE(o.m.ephemeralKey, s.ephemeralKeyPair), s.rootKey, "WhisperRatchet")
    IN /\ o.pc = "hkdf1"
       /\ ops' = [ops EXCEPT ![i] =
                    [o EXCEPT !.pc = "hkdf2", !.hk = masterKey[1],
                              !.s = [s EXCEPT !.chains = (o.m.ephemeralKey :> NewChain(-1, masterKey[2])) @@ @,
                                              !.ephemeralKeyPair = nextKey]]]
       /\ nextKey' = nextKey + 1
       /\ UNCHANGED <<session, preKeys, net, results, errors, nextId, nSend, nInject, nDeliver, nOverlap, aesUndefined, notCrypto>>

\* The second HKDF resolved: root key, send chain, lastRemoteEphemeralKey,
\* and maybeStepRatchet's callback.
RatchetSend(i) ==
    LET o == ops[i]
        s == o.s
        masterKey == HKDF(ECDHE(o.m.ephemeralKey, s.ephemeralKeyPair), o.hk, "WhisperRatchet")
        s1 == [s EXCEPT !.rootKey = masterKey[1],
                        !.chains = (s.ephemeralKeyPair :> NewChain(-1, masterKey[2])) @@ @,
                        !.lastRemoteEphemeralKey = o.m.ephemeralKey]
    IN /\ o.pc = "hkdf2"
       /\ ops' = [ops EXCEPT ![i] = MessageFillStart([o EXCEPT !.s = s1, !.hk = ""])]
       /\ UNCHANGED <<session, preKeys, net, results, errors, nextKey, nextId, nSend, nInject, nDeliver, nOverlap, aesUndefined, notCrypto>>

\* The first HmacSHA256 of the message chain's fill resolved: the inner
\* HmacSHA256 starts, and the continuation calls HKDF on the message key the
\* chain holds now.
FillMsgResolved(i) ==
    LET o == ops[i]
    IN /\ o.pc = "fillMsg"
       /\ ops' = [ops EXCEPT ![i] =
                    [o EXCEPT !.pc = "decHkdf",
                              !.hk = Lookup(o.s.chains[o.m.ephemeralKey].messageKeys, o.m.counter),
                              !.fillMsg = [on |-> TRUE, chain |-> o.m.ephemeralKey,
                                           target |-> o.m.counter]]]
       /\ UNCHANGED <<session, preKeys, net, results, errors, nextKey, nextId, nSend, nInject, nDeliver, nOverlap, aesUndefined, notCrypto>>

\* A fill's inner HmacSHA256 resolved: one key is stored on the closure's
\* session and fillMessageKeys calls itself.
Refill(o, f) ==
    LET chain == FillOnce(o.s.chains[f.chain])
    IN [s |-> [o.s EXCEPT !.chains[f.chain] = chain],
        f |-> IF FillNeeded(chain, f.target) THEN f ELSE NoFill]

FillStepPrev(i) ==
    LET o == ops[i]
        r == Refill(o, o.fillPrev)
    IN /\ o.pc # "idle" /\ o.fillPrev.on
       /\ ops' = [ops EXCEPT ![i] = [o EXCEPT !.s = r.s, !.fillPrev = r.f]]
       /\ UNCHANGED <<session, preKeys, net, results, errors, nextKey, nextId, nSend, nInject, nDeliver, nOverlap, aesUndefined, notCrypto>>

FillStepMsg(i) ==
    LET o == ops[i]
        r == Refill(o, o.fillMsg)
    IN /\ o.pc # "idle" /\ o.fillMsg.on
       /\ ops' = [ops EXCEPT ![i] = [o EXCEPT !.s = r.s, !.fillMsg = r.f]]
       /\ UNCHANGED <<session, preKeys, net, results, errors, nextKey, nextId, nSend, nInject, nDeliver, nOverlap, aesUndefined, notCrypto>>

\* verifyMACWithVersionByte(messageProto, keys[1], mac, version): the
\* comparison and its throw sit in the continuation of HmacSHA256, whose
\* promise nobody holds: the caller goes on whatever the comparison says.
MacMatches(m, macKey) == m.tampered = "" /\ m.macKey = macKey
verifyMACWithVersionByte(m, macKey) == TRUE

\* decryptAESCTR(ciphertext, key, counter): the counter is not used, the iv
\* is the empty string.
decryptAESCTR(m, key) ==
    IF m.key = key /\ m.iv = EmptyIV /\ m.tampered # "ct" THEN m.pt ELSE Garbage

\* The last continuation of decryptWhisperMessage: HKDF of the message key
\* resolved. The key is deleted, the MAC looked at, the ciphertext decrypted,
\* the session saved and the callback called on
\* decodePushMessageContentProtobuf(plaintext); a result of Garbage stands for
\* whatever the decoder makes of bytes that are not the sender's plaintext.
DecryptDone(i) ==
    LET o == ops[i]
        m == o.m
        keys == MessageKeysOf(o.hk)
        s == [o.s EXCEPT !.chains[m.ephemeralKey].messageKeys = Remove(@, m.counter)]
        plaintext == decryptAESCTR(m, keys[1])
        thrown == IF MacMatches(m, keys[2]) THEN {} ELSE {"Bad MAC"}
    IN /\ o.pc = "decHkdf"
       /\ verifyMACWithVersionByte(m, keys[2])
       /\ session' = [session EXCEPT ![o.party] = s]
       /\ results' = results \cup {[party |-> o.party, id |-> m.id, pt |-> plaintext, at |-> o.at]}
       /\ errors' = errors \cup {[party |-> o.party, id |-> m.id, what |-> e] : e \in thrown}
       /\ ops' = [ops EXCEPT ![i] = IdleOp]
       /\ UNCHANGED <<preKeys, net, nextKey, nextId, nSend, nInject, nDeliver, nOverlap, aesUndefined, notCrypto>>

(* ------------------------------ the network ---------------------------- *)
\* What the network can make of a message it carried: flipped bits in the
\* MAC or the ciphertext, another version byte, another header (an unknown
\* ephemeral key with counters of its choosing).
Forged(keys, m) ==
    {[m EXCEPT !.tampered = "hdr", !.ephemeralKey = e, !.counter = c, !.previousCounter = c] :
        e \in keys, c \in 0 .. MaxCounter}

Tampered(m) ==
    {[m EXCEPT !.tampered = "mac"], [m EXCEPT !.tampered = "ct"],
     [m EXCEPT !.tampered = "hdr", !.versionOk = FALSE]}
    \cup (IF m.type = 3
          THEN {[m EXCEPT !.tampered = "hdr", !.outerOk = FALSE]}
               \cup {[m EXCEPT !.tampered = "hdr", !.preKeyId = k] : k \in UnknownPreKeyIds}
          ELSE {})
    \cup Forged(ForeignKeys, m)

InjectUpTo(limit, m, t) ==
    /\ nInject < limit
    /\ m.tampered = ""
    /\ net' = net \cup {[t EXCEPT !.id = nextId]}
    /\ nextId' = nextId + 1
    /\ nInject' = nInject + 1
    /\ UNCHANGED <<session, preKeys, ops, results, errors, nextKey, nSend, nDeliver, nOverlap, aesUndefined, notCrypto>>

Inject(m, t) == InjectUpTo(MaxInject, m, t)

Next ==
    \/ \E p \in Party, i \in OpIds, keyId \in PreKeyIds : EncryptBegin(p, i, keyId)
    \/ \E i \in OpIds : EncryptInitDone(i)
    \/ \E i \in OpIds : EncryptDone(i)
    \/ \E m \in net, i \in OpIds : Deliver(m, i)
    \/ \E i \in OpIds : DecryptInitDone(i)
    \/ \E i \in OpIds : FillPrevResolved(i)
    \/ \E i \in OpIds : RatchetReceive(i)
    \/ \E i \in OpIds : RatchetSend(i)
    \/ \E i \in OpIds : FillMsgResolved(i)
    \/ \E i \in OpIds : FillStepPrev(i)
    \/ \E i \in OpIds : FillStepMsg(i)
    \/ \E i \in OpIds : DecryptDone(i)
    \/ \E m \in net : \E t \in Tampered(m) : Inject(m, t)

Spec == Init /\ [][Next]_vars

(* ------- one call at a time, more forged chains: chain retention ------- *)
\* No call is in flight.
Sequential == \A j \in OpIds : ops[j].pc = "idle"

\* The unknown ephemeral keys the network names in this specification.
RetForeignKeys == {90, 91}

RetentionNext ==
    \/ \E p \in Party, i \in OpIds : Sequential /\ nSend < RetSend /\ EncryptBegin(p, i, 1)
    \/ \E i \in OpIds : EncryptInitDone(i)
    \/ \E i \in OpIds : EncryptDone(i)
    \/ \E m \in net, i \in OpIds : Sequential /\ Deliver(m, i)
    \/ \E i \in OpIds : DecryptInitDone(i)
    \/ \E i \in OpIds : FillPrevResolved(i)
    \/ \E i \in OpIds : RatchetReceive(i)
    \/ \E i \in OpIds : RatchetSend(i)
    \/ \E i \in OpIds : FillMsgResolved(i)
    \/ \E i \in OpIds : FillStepPrev(i)
    \/ \E i \in OpIds : FillStepMsg(i)
    \/ \E i \in OpIds : DecryptDone(i)
    \/ \E m \in net : \E t \in Forged(RetForeignKeys, m) : InjectUpTo(RetInject, m, t)

RetentionSpec == Init /\ [][RetentionNext]_vars

(* ------- one call at a time, one more delivery: late messages ---------- *)
RotationNext ==
    \/ \E p \in Party, i \in OpIds : Sequential /\ EncryptBegin(p, i, 1)
    \/ \E i \in OpIds : EncryptInitDone(i)
    \/ \E i \in OpIds : EncryptDone(i)
    \/ \E m \in net, i \in OpIds : Sequential /\ DeliverUpTo(RotDeliver, m, i)
    \/ \E i \in OpIds : DecryptInitDone(i)
    \/ \E i \in OpIds : FillPrevResolved(i)
    \/ \E i \in OpIds : RatchetReceive(i)
    \/ \E i \in OpIds : RatchetSend(i)
    \/ \E i \in OpIds : FillMsgResolved(i)
    \/ \E i \in OpIds : FillStepPrev(i)
    \/ \E i \in OpIds : FillStepMsg(i)
    \/ \E i \in OpIds : DecryptDone(i)
    \/ \E m \in net : \E t \in Forged(ForeignKeys, m) : Inject(m, t)

RotationSpec == Init /\ [][RotationNext]_vars

(* ------------------- calls on the session store ----------------------- *)
\* An encrypt or decrypt call for encodedNumber starts: it reads the session
\* (encryptMessageFor, decryptWhisperMessage: crypto_storage.getSession).
SessionCallBegin(i, encodedNumber) ==
    /\ sessionCalls[i].pc = "idle"
    /\ sessionCalls' = [sessionCalls EXCEPT ![i] =
                          [pc |-> "loaded", encodedNumber |-> encodedNumber,
                           session |-> getSession(localStorage, encodedNumber)]]
    /\ UNCHANGED <<localStorage, notStore>>

\* The call's last continuation: it saves the session it worked on
\* (initSession, doEncryptPushMessageContent, decryptWhisperMessage:
\* crypto_storage.saveSession).
SessionCallSave(i) ==
    LET c == sessionCalls[i]
    IN /\ c.pc = "loaded"
       /\ c.session < MaxVersion
       /\ localStorage' = saveSession(localStorage, c.encodedNumber, c.session + 1)
       /\ sessionCalls' = [sessionCalls EXCEPT ![i] = IdleCall]
       /\ UNCHANGED notStore

\* The call throws before it saves.
SessionCallThrow(i) ==
    /\ sessionCalls[i].pc = "loaded"
    /\ sessionCalls' = [sessionCalls EXCEPT ![i] = IdleCall]
    /\ UNCHANGED <<localStorage, notStore>>

StoreNext ==
    \/ \E i \in SessionCallIds, x \in EncodedNumbers : SessionCallBegin(i, x)
    \/ \E i \in SessionCallIds : SessionCallSave(i)
    \/ \E i \in SessionCallIds : SessionCallThrow(i)

StoreSpec == Init /\ [][StoreNext]_vars

(* ---------------------- SocketManager: operations ---------------------- *)
Range(s) == {s[i] : i \in DOMAIN s}

\* BackOff: getAndIncrement moves to the next timeout and stays at the last.
MaxBackOff == 2
getAndIncrement(index) == Min(index + 1, MaxBackOff)

\* connectResource: a new process, connecting, its connect timer running.
connectResource(procs, p, via) ==
    [procs EXCEPT ![p] = [state |-> "connecting", aborted |-> FALSE, closing |-> 0, via |-> via]]

\* The abort callback of connectResource. With a resource it closes the
\* socket with code 3000; without one it clears the timer and aborts the
\* client.
abort(procs, p) ==
    IF p = 0 THEN procs
    ELSE IF procs[p].state = "open" THEN [procs EXCEPT ![p].closing = 3000]
    ELSE IF procs[p].state = "connecting" THEN [procs EXCEPT ![p].aborted = TRUE]
    ELSE procs

\* Without a handler the request is dropped.
handleOrDrop(st, req) ==
    IF st.handlers = {} THEN st
    ELSE [st EXCEPT !.handled = [h \in Handlers |->
                        IF h \in st.handlers THEN Append(@[h], req) ELSE @[h]]]

\* queueOrHandleRequest on st = [handlers, queue, handled].
queueOrHandleRequest(st, req) ==
    IF st.handlers = {} THEN [st EXCEPT !.queue = Append(@, req)]
    ELSE [st EXCEPT !.handled = [h \in Handlers |->
                        IF h \in st.handlers THEN Append(@[h], req) ELSE @[h]]]

RECURSIVE drainQueue(_, _)
drainQueue(st, queue) ==
    IF queue = <<>> THEN st
    ELSE drainQueue(queueOrHandleRequest(st, Head(queue)), Tail(queue))

\* dropAuthenticated, for a process that is this.authenticated.
dropAuthenticated ==
    /\ queueHistory' = [queueHistory EXCEPT !.discarded = @ \cup Range(incomingRequestQueue)]
    /\ incomingRequestQueue' = <<>>
    /\ authenticated' = 0
    /\ status' = "CLOSED"

\* reconnect(), up to its sleep.
reconnect ==
    /\ backOff' = getAndIncrement(backOff)
    /\ sleeping' = sleeping + 1

\* No close of the socket is followed by a reconnect.
closeNeverReconnects(code) == FALSE

\* The close listener reconnects unless the code is 3000.
closeReconnects(code) == code # 3000

\* The catch clause of authenticate: which errors are followed by reconnect().
failureReconnects(err) == err \in {"timeout", "http500", "http-1"}

\* The body of authenticate past the offline check, with procs the
\* processes as the caller leaves them.
authenticateBody(c, via, procs) ==
    IF c = credentials /\ authenticated # 0
    THEN /\ processes' = procs
         /\ UNCHANGED <<credentials, status, authenticated, nextProcess, lastDrop>>
    ELSE /\ nextProcess <= MaxProcesses
         /\ credentials' = c
         /\ status' = "CONNECTING"
         /\ processes' = abort(connectResource(procs, nextProcess, via), authenticated)
         /\ authenticated' = nextProcess
         /\ nextProcess' = nextProcess + 1
         /\ lastDrop' = NoDrop

\* authenticate(credentials) called by the application.
Authenticate(c) ==
    /\ ~isOffline
    /\ ~(c = credentials /\ authenticated # 0)
    /\ authenticateBody(c, "user", processes)
    /\ UNCHANGED <<requestHandlers, incomingRequestQueue, isOffline, backOff, sleeping,
                   handled, failedAsserts, nextRequest, queueHistory, notSocket>>

\* The socket of process p connects and authenticate resumes after
\* `await process.getResult()`.
ConnectSucceeds(p) ==
    /\ processes[p].state = "connecting"
    /\ ~processes[p].aborted
    /\ processes' = [processes EXCEPT ![p].state = "open"]
    /\ status' = "OPEN"
    /\ backOff' = 0
    /\ UNCHANGED <<credentials, authenticated, requestHandlers, incomingRequestQueue,
                   isOffline, sleeping, handled, failedAsserts, lastDrop, nextProcess,
                   nextRequest, queueHistory, notSocket>>

\* The connection attempt of process p fails with err and authenticate
\* resumes in its catch clause. An aborted attempt fails (the handler then
\* throws before it looks at the error) or never settles.
ConnectFails(p, err) ==
    /\ processes[p].state = "connecting"
    /\ processes[p].aborted => err = "http-1"
    /\ processes' = [processes EXCEPT ![p].state = "failed"]
    /\ IF authenticated # p
       THEN \* strictAssert throws; a reconnect() that awaits this call
            \* catches the error and calls reconnect() again
            /\ failedAsserts' = failedAsserts \cup {"Someone stole our socket"}
            /\ IF processes[p].via = "reconnect"
               THEN reconnect
               ELSE UNCHANGED <<backOff, sleeping>>
            /\ UNCHANGED <<incomingRequestQueue, authenticated, status, lastDrop, queueHistory>>
       ELSE /\ dropAuthenticated
            /\ lastDrop' = [kind |-> "failure", code |-> 0, err |-> err]
            /\ IF failureReconnects(err)
               THEN reconnect
               ELSE UNCHANGED <<backOff, sleeping>>
            /\ UNCHANGED failedAsserts
    /\ UNCHANGED <<credentials, requestHandlers, isOffline, handled, nextProcess,
                   nextRequest, notSocket>>

\* The socket of process p closes with a code: the code of the manager's
\* own close, or any code when the close comes from outside.
SocketClose(p, code) ==
    /\ processes[p].state = "open"
    /\ processes[p].closing # 0 => code = processes[p].closing
    /\ processes' = [processes EXCEPT ![p].state = "closed"]
    /\ IF authenticated # p
       THEN UNCHANGED <<incomingRequestQueue, authenticated, status, backOff, sleeping,
                        lastDrop, queueHistory>>
       ELSE /\ dropAuthenticated
            /\ lastDrop' = [kind |-> "close", code |-> code, err |-> ""]
            /\ IF closeReconnects(code)
               THEN reconnect
               ELSE UNCHANGED <<backOff, sleeping>>
    /\ UNCHANGED <<credentials, requestHandlers, isOffline, handled, failedAsserts,
                   nextProcess, nextRequest, notSocket>>

\* A reconnect() wakes from its sleep.
ReconnectWake ==
    /\ sleeping > 0
    /\ sleeping' = sleeping - 1
    /\ IF isOffline \/ authenticated # 0
       THEN UNCHANGED <<credentials, status, authenticated, processes, nextProcess, lastDrop>>
       ELSE authenticateBody(credentials, "reconnect", processes)
    /\ UNCHANGED <<requestHandlers, incomingRequestQueue, isOffline, backOff, handled,
                   failedAsserts, nextRequest, queueHistory, notSocket>>

\* onOnline
OnOnline ==
    /\ isOffline
    /\ isOffline' = FALSE
    /\ IF credentials # 0
       THEN authenticateBody(credentials, "user", processes)
       ELSE UNCHANGED <<credentials, status, authenticated, processes, nextProcess, lastDrop>>
    /\ UNCHANGED <<requestHandlers, incomingRequestQueue, backOff, sleeping, handled,
                   failedAsserts, nextRequest, queueHistory, notSocket>>

\* onOffline
OnOffline ==
    /\ ~isOffline
    /\ isOffline' = TRUE
    /\ processes' = abort(processes, authenticated)
    /\ authenticated' = 0
    /\ UNCHANGED <<credentials, status, requestHandlers, incomingRequestQueue, backOff,
                   sleeping, handled, failedAsserts, lastDrop, nextProcess, nextRequest,
                   queueHistory, notSocket>>

\* The handleRequest of process p's socket receives a request.
IncomingRequest(p) ==
    /\ processes[p].state = "open"
    /\ nextRequest <= MaxRequests
    /\ LET st == queueOrHandleRequest([handlers |-> requestHandlers,
                                       queue |-> incomingRequestQueue,
                                       handled |-> handled], nextRequest)
       IN /\ incomingRequestQueue' = st.queue
          /\ handled' = st.handled
    /\ nextRequest' = nextRequest + 1
    /\ UNCHANGED <<credentials, authenticated, status, requestHandlers, isOffline, backOff,
                   processes, sleeping, failedAsserts, lastDrop, nextProcess, queueHistory, notSocket>>

\* registerRequestHandler
RegisterRequestHandler(h) ==
    /\ h \notin requestHandlers
    /\ requestHandlers' = requestHandlers \cup {h}
    /\ LET st == drainQueue([handlers |-> requestHandlers \cup {h},
                             queue |-> <<>>,
                             handled |-> handled], incomingRequestQueue)
       IN /\ incomingRequestQueue' = st.queue
          /\ handled' = st.handled
    /\ queueHistory' = [queueHistory EXCEPT !.drained = @ \cup Range(incomingRequestQueue)]
    /\ UNCHANGED <<credentials, authenticated, status, isOffline, backOff, processes,
                   sleeping, failedAsserts, lastDrop, nextProcess, nextRequest, notSocket>>

\* unregisterRequestHandler
UnregisterRequestHandler(h) ==
    /\ h \in requestHandlers
    /\ requestHandlers' = requestHandlers \ {h}
    /\ UNCHANGED <<credentials, authenticated, status, incomingRequestQueue, isOffline,
                   backOff, processes, sleeping, handled, failedAsserts, lastDrop,
                   nextProcess, nextRequest, queueHistory, notSocket>>

\* The steps of the authenticated connection.
ConnectionNext ==
    \/ \E c \in Credentials : Authenticate(c)
    \/ \E p \in ProcessIds : ConnectSucceeds(p)
    \/ \E p \in ProcessIds : \E err \in ConnectErrors : ConnectFails(p, err)
    \/ \E p \in ProcessIds : \E code \in CloseCodes : SocketClose(p, code)
    \/ ReconnectWake
    \/ OnOnline
    \/ OnOffline

SocketNext ==
    \/ ConnectionNext
    \/ \E p \in ProcessIds : IncomingRequest(p)
    \/ \E h \in Handlers : RegisterRequestHandler(h)
    \/ \E h \in Handlers : UnregisterRequestHandler(h)

SocketSpec == Init /\ [][SocketNext]_vars

\* The connection alone, with the timer of sleep(): a reconnect() that
\* sleeps always wakes.
SocketLiveSpec == Init /\ [][ConnectionNext]_vars /\ WF_vars(ReconnectWake)

(* ---------------------- subscribeToPush: steps ------------------------- *)
\* The body of subscribeToPush: nothing when the semaphore is taken, else
\* the semaphore is taken and a WebSocket made with its four handlers.
subscribeToPush ==
    IF subscribeToPushMessageSemaphore <= 0
    THEN UNCHANGED <<subscribeToPushMessageSemaphore, pushSockets, nextPushSocket>>
    ELSE /\ nextPushSocket <= MaxPushSockets
         /\ subscribeToPushMessageSemaphore' = subscribeToPushMessageSemaphore - 1
         /\ pushSockets' = [pushSockets EXCEPT ![nextPushSocket] = "connecting"]
         /\ nextPushSocket' = nextPushSocket + 1

\* The application calls subscribeToPush(message_callback).
SubscribeToPush ==
    /\ nSubscribe < MaxSubscribe
    /\ nSubscribe' = nSubscribe + 1
    /\ subscribeToPush
    /\ UNCHANGED <<pushTimers, notPush>>

\* socket.onopen
PushSocketOpen(k) ==
    /\ pushSockets[k] = "connecting"
    /\ pushSockets' = [pushSockets EXCEPT ![k] = "open"]
    /\ UNCHANGED <<subscribeToPushMessageSemaphore, pushTimers, nextPushSocket, nSubscribe,
                   notPush>>

\* socket.onerror: a WebSocket that fails reports the error and then closes.
PushSocketError(k) ==
    /\ pushSockets[k] \in {"connecting", "open"}
    /\ pushSockets' = [pushSockets EXCEPT ![k] = "failed"]
    /\ subscribeToPushMessageSemaphore' = subscribeToPushMessageSemaphore + 1
    /\ pushTimers' = pushTimers + 1
    /\ UNCHANGED <<nextPushSocket, nSubscribe, notPush>>

\* socket.onclose
PushSocketClose(k) ==
    /\ pushSockets[k] \in {"connecting", "open", "failed"}
    /\ pushSockets' = [pushSockets EXCEPT ![k] = "closed"]
    /\ subscribeToPushMessageSemaphore' = subscribeToPushMessageSemaphore + 1
    /\ pushTimers' = pushTimers + 1
    /\ UNCHANGED <<nextPushSocket, nSubscribe, notPush>>

\* A timer fires: subscribeToPush(message_callback).
PushTimerFires ==
    /\ pushTimers > 0
    /\ pushTimers' = pushTimers - 1
    /\ subscribeToPush
    /\ UNCHANGED <<nSubscribe, notPush>>

PushNext ==
    \/ SubscribeToPush
    \/ \E k \in PushSocketIds : PushSocketOpen(k)
    \/ \E k \in PushSocketIds : PushSocketError(k)
    \/ \E k \in PushSocketIds : PushSocketClose(k)
    \/ PushTimerFires

PushSpec == Init /\ [][PushNext]_vars

(* -------------------- sendMessageToNumbers: steps ---------------------- *)
\* A request to the server whose callback is pending, made in or for the
\* i-th turn of the loop. A key request carries the number it was made
\* for; a send carries the number and the devices doSendMessage was called
\* with.
KeyRequest(i, n) == [turn |-> i, kind |-> "keys", for |-> n, devices |-> ""]
SendRequest(i, n, devices) == [turn |-> i, kind |-> "send", for |-> n, devices |-> devices]

\* numberCompleted(): the final callback is called when the count reaches
\* the length of the list.
numberCompleted ==
    /\ numbersCompleted' = numbersCompleted + 1
    /\ callbackCalls' = IF numbersCompleted + 1 >= Len(sendNumbers)
                        THEN callbackCalls + 1 ELSE callbackCalls

\* registerError(number, message)
registerError(n) ==
    /\ sendErrors' = Append(sendErrors, n)
    /\ numberCompleted

\* sendMessageToNumbers(numbers, message, callback) up to the end of its
\* loop, with known the numbers whose device objects are stored: a send for
\* each number with devices, a key request for each other one. var number
\* is left at the last number of the list.
SendMessageToNumbers(numbers, known) ==
    /\ sendNumbers = <<>>
    /\ sendNumbers' = numbers
    /\ deviceObjects' = known
    /\ number' = numbers[Len(numbers)]
    /\ sendPending' = {IF numbers[i] \in known
                          THEN SendRequest(i, numbers[i], numbers[i])
                          ELSE KeyRequest(i, numbers[i]) : i \in DOMAIN numbers}
    /\ UNCHANGED <<numbersCompleted, sendErrors, successfulNumbers, callbackCalls, notSend>>

\* getKeysForNumber's success: the device objects of the requested number
\* are saved, and the callback made in the loop runs with var number as it
\* is now.
KeysFetched(r) ==
    /\ r \in sendPending /\ r.kind = "keys"
    /\ deviceObjects' = deviceObjects \cup {r.for}
    /\ IF number \notin deviceObjects \cup {r.for}
       THEN /\ registerError(number)
            /\ sendPending' = sendPending \ {r}
            /\ UNCHANGED successfulNumbers
       ELSE /\ sendPending' = (sendPending \ {r}) \cup {SendRequest(r.turn, number, number)}
            /\ UNCHANGED <<numbersCompleted, sendErrors, successfulNumbers, callbackCalls>>
    /\ UNCHANGED <<sendNumbers, number, notSend>>

\* getKeysForNumber's failure (the request failed, or saveDeviceObject threw).
KeysFailed(r) ==
    /\ r \in sendPending /\ r.kind = "keys"
    /\ sendPending' = sendPending \ {r}
    /\ registerError(number)
    /\ UNCHANGED <<sendNumbers, number, deviceObjects, successfulNumbers, notSend>>

\* sendMessageToDevices called its success_callback.
SendSucceeded(r) ==
    /\ r \in sendPending /\ r.kind = "send"
    /\ sendPending' = sendPending \ {r}
    /\ successfulNumbers' = Append(successfulNumbers, r.for)
    /\ numberCompleted
    /\ UNCHANGED <<sendNumbers, number, deviceObjects, sendErrors, notSend>>

\* sendMessageToDevices called its error_callback (mismatched relays, or
\* the server refused).
SendFailed(r) ==
    /\ r \in sendPending /\ r.kind = "send"
    /\ sendPending' = sendPending \ {r}
    /\ registerError(r.for)
    /\ UNCHANGED <<sendNumbers, number, deviceObjects, successfulNumbers, notSend>>

SendNext ==
    \/ \E numbers \in NumberLists, known \in SUBSET SendNumbers :
          SendMessageToNumbers(numbers, known)
    \/ \E r \in sendPending : KeysFetched(r)
    \/ \E r \in sendPending : KeysFailed(r)
    \/ \E r \in sendPending : SendSucceeded(r)
    \/ \E r \in sendPending : SendFailed(r)

SendSpec == Init /\ [][SendNext]_vars

(* ----------------------- AccountManager: steps ------------------------ *)
StoredSignedPreKeys(store) == {k \in SignedKeyIds : store[k].keyPair # 0}

\* cleanSignedPreKeys: the MINIMUM_SIGNED_PREKEYS most recent keys are kept;
\* an older one is removed once it is older than ARCHIVE_AGE (taken to be so).
cleanSignedPreKeys(store) ==
    [k \in SignedKeyIds |->
        IF Cardinality({j \in StoredSignedPreKeys(store) : j > k}) >= MINIMUM_SIGNED_PREKEYS
        THEN NoSignedPreKey ELSE store[k]]

\* store.storeSignedPreKey(keyId, keyPair, confirmed)
storeSignedPreKey(store, keyId, keyPair, confirmed) ==
    [store EXCEPT ![keyId] = [keyPair |-> keyPair, confirmed |-> confirmed]]

\* The task of slot i ends.
TaskEnds(i) == accountTasks' = [accountTasks EXCEPT ![i] = IdleTask]

\* queueTask(task): PQueue({ concurrency: 1 }) starts the task once the
\* promises of the tasks before it have settled.
QueueTask(i, kind) ==
    /\ nTasks < MaxTasks
    /\ accountTasks[i].pc = "idle"
    /\ \A j \in AccountTaskIds : j < i => accountTasks[j].pc # "idle"
    /\ \A j \in AccountTaskIds : accountTasks[j].settled
    /\ nTasks' = nTasks + 1
    /\ accountTasks' = [accountTasks EXCEPT ![i] =
           [IdleTask EXCEPT !.kind = kind, !.settled = FALSE,
                            !.pc = CASE kind = "register" -> "createAccount"
                                     [] kind = "refresh" -> "getMyKeys"
                                     [] OTHER -> "rotLoad",
                            !.keyId = IF kind = "rotate" THEN signedKeyId ELSE 0]]
    /\ UNCHANGED <<signedKeyId, signedPreKeys, uploaded, rejected, nextKeyPair, notAccount>>

\* createTaskWithTimeout: the timeout of a running task passes and its
\* promise rejects; the task itself goes on.
TaskTimeout(i) ==
    /\ accountTasks[i].pc # "idle"
    /\ ~accountTasks[i].settled
    /\ accountTasks' = [accountTasks EXCEPT ![i].settled = TRUE]
    /\ UNCHANGED <<signedKeyId, signedPreKeys, uploaded, rejected, nextKeyPair, nTasks,
                   notAccount>>

\* The call a task waits for throws (createAccount, getMyKeys,
\* getIdentityKeyPair) and the task ends.
TaskThrows(i) ==
    /\ accountTasks[i].pc \in {"createAccount", "getMyKeys", "genKeys", "rotLoad"}
    /\ TaskEnds(i)
    /\ UNCHANGED <<signedKeyId, signedPreKeys, uploaded, rejected, nextKeyPair, nTasks,
                   notAccount>>

\* registerSingleDevice / registerSecondDevice: createAccount returned.
CreateAccountDone(i) ==
    /\ accountTasks[i].pc = "createAccount"
    /\ accountTasks' = [accountTasks EXCEPT ![i].pc = "clear"]
    /\ UNCHANGED <<signedKeyId, signedPreKeys, uploaded, rejected, nextKeyPair, nTasks,
                   notAccount>>

\* clearSessionsAndPreKeys, and generateKeys up to getIdentityKeyPair: it
\* reads signedKeyId.
ClearSessionsAndPreKeys(i) ==
    /\ accountTasks[i].pc = "clear"
    /\ signedPreKeys' = [k \in SignedKeyIds |-> NoSignedPreKey]
    /\ accountTasks' = [accountTasks EXCEPT ![i].pc = "genKeys", ![i].keyId = signedKeyId]
    /\ UNCHANGED <<signedKeyId, uploaded, rejected, nextKeyPair, nTasks, notAccount>>

\* refreshPreKeys: getMyKeys returned; with few keys left generateKeys
\* starts and reads signedKeyId.
GetMyKeysDone(i, few) ==
    /\ accountTasks[i].pc = "getMyKeys"
    /\ IF few
       THEN accountTasks' = [accountTasks EXCEPT ![i].pc = "genKeys", ![i].keyId = signedKeyId]
       ELSE TaskEnds(i)
    /\ UNCHANGED <<signedKeyId, signedPreKeys, uploaded, rejected, nextKeyPair, nTasks,
                   notAccount>>

\* generateKeys from getIdentityKeyPair's result on: the new signed prekey
\* is stored without confirmed, signedKeyId is put, cleanSignedPreKeys
\* runs, and the caller starts the upload (registerKeys).
GenerateKeys(i) ==
    LET task == accountTasks[i]
    IN /\ task.pc = "genKeys"
       /\ signedKeyId' = task.keyId + 1
       /\ signedPreKeys' = cleanSignedPreKeys(
              storeSignedPreKey(signedPreKeys, task.keyId, nextKeyPair, FALSE))
       /\ nextKeyPair' = nextKeyPair + 1
       /\ accountTasks' = [accountTasks EXCEPT ![i].pc = "upload", ![i].keyPair = nextKeyPair,
                                               ![i].stored = TRUE, ![i].upload = "pending"]
       /\ UNCHANGED <<uploaded, rejected, nTasks, notAccount>>

\* server.registerKeys(keys) succeeded: the registration goes on to
\* confirmKeys, refreshPreKeys ends.
RegisterKeysAccepted(i) ==
    LET task == accountTasks[i]
    IN /\ task.pc = "upload"
       /\ uploaded' = uploaded \cup {<<task.keyId, task.keyPair>>}
       /\ IF task.kind = "register"
          THEN accountTasks' = [accountTasks EXCEPT ![i].pc = "confirm", ![i].upload = "ok"]
          ELSE TaskEnds(i)
       /\ UNCHANGED <<signedKeyId, signedPreKeys, rejected, nextKeyPair, nTasks, notAccount>>

\* server.registerKeys(keys) threw: the task ends.
RegisterKeysRejected(i) ==
    LET task == accountTasks[i]
    IN /\ task.pc = "upload"
       /\ rejected' = rejected \cup {<<task.keyId, task.keyPair>>}
       /\ TaskEnds(i)
       /\ UNCHANGED <<signedKeyId, signedPreKeys, uploaded, nextKeyPair, nTasks, notAccount>>

\* confirmKeys(keys), then registrationDone.
ConfirmKeys(i) ==
    LET task == accountTasks[i]
    IN /\ task.pc = "confirm"
       /\ signedPreKeys' = storeSignedPreKey(signedPreKeys, task.keyId, task.keyPair, TRUE)
       /\ TaskEnds(i)
       /\ UNCHANGED <<signedKeyId, uploaded, rejected, nextKeyPair, nTasks, notAccount>>

ConfirmedKeys(store) == {k \in StoredSignedPreKeys(store) : store[k].confirmed}

\* rotateSignedPreKey cancels: two confirmed keys, or the most recent
\* confirmed one is younger than PREKEY_ROTATION_AGE.
RotateCancels(i) ==
    /\ accountTasks[i].pc = "rotLoad"
    /\ ConfirmedKeys(signedPreKeys) # {}
    /\ TaskEnds(i)
    /\ UNCHANGED <<signedKeyId, signedPreKeys, uploaded, rejected, nextKeyPair, nTasks,
                   notAccount>>

\* rotateSignedPreKey generates the key and starts Promise.all of the put
\* of signedKeyId, the store of the key and the upload (setSignedPreKey).
RotateGenerates(i) ==
    LET task == accountTasks[i]
    IN /\ task.pc = "rotLoad"
       /\ Cardinality(ConfirmedKeys(signedPreKeys)) < 2
       /\ signedKeyId' = task.keyId + 1
       /\ nextKeyPair' = nextKeyPair + 1
       /\ accountTasks' = [accountTasks EXCEPT ![i].pc = "rotAll", ![i].keyPair = nextKeyPair,
                                               ![i].upload = "pending"]
       /\ UNCHANGED <<signedPreKeys, uploaded, rejected, nTasks, notAccount>>

\* The store of the new key, without confirmed, completes.
RotateStores(i) ==
    LET task == accountTasks[i]
    IN /\ task.pc \in {"rotAll", "rotFailed"}
       /\ ~task.stored
       /\ signedPreKeys' = storeSignedPreKey(signedPreKeys, task.keyId, task.keyPair, FALSE)
       /\ IF task.pc = "rotFailed"
          THEN TaskEnds(i)
          ELSE accountTasks' = [accountTasks EXCEPT ![i].stored = TRUE]
       /\ UNCHANGED <<signedKeyId, uploaded, rejected, nextKeyPair, nTasks, notAccount>>

\* server.setSignedPreKey succeeded.
SetSignedPreKeyAccepted(i) ==
    LET task == accountTasks[i]
    IN /\ task.pc = "rotAll"
       /\ task.upload = "pending"
       /\ uploaded' = uploaded \cup {<<task.keyId, task.keyPair>>}
       /\ accountTasks' = [accountTasks EXCEPT ![i].upload = "ok"]
       /\ UNCHANGED <<signedKeyId, signedPreKeys, rejected, nextKeyPair, nTasks, notAccount>>

\* server.setSignedPreKey threw: Promise.all rejects and the catch clause
\* runs; a store that has not completed still does.
SetSignedPreKeyRejected(i) ==
    LET task == accountTasks[i]
    IN /\ task.pc = "rotAll"
       /\ task.upload = "pending"
       /\ rejected' = rejected \cup {<<task.keyId, task.keyPair>>}
       /\ IF task.stored
          THEN TaskEnds(i)
          ELSE accountTasks' = [accountTasks EXCEPT ![i].pc = "rotFailed", ![i].settled = TRUE,
                                                   ![i].upload = "failed"]
       /\ UNCHANGED <<signedKeyId, signedPreKeys, uploaded, nextKeyPair, nTasks, notAccount>>

\* The key is confirmed whatever became of the upload.
confirmsOnceStored(task) == task.stored

\* Promise.all resolved: the put, the store and the upload all succeeded.
promiseAllResolved(task) == task.stored /\ task.upload = "ok"

\* The continuation of Promise.all: the key is stored again, confirmed, and
\* cleanSignedPreKeys runs.
RotateConfirms(i) ==
    LET task == accountTasks[i]
    IN /\ task.pc = "rotAll"
       /\ promiseAllResolved(task)
       /\ signedPreKeys' = cleanSignedPreKeys(
              storeSignedPreKey(signedPreKeys, task.keyId, task.keyPair, TRUE))
       /\ TaskEnds(i)
       /\ UNCHANGED <<signedKeyId, uploaded, rejected, nextKeyPair, nTasks, notAccount>>

AccountNext ==
    \/ \E i \in AccountTaskIds, kind \in {"register", "refresh", "rotate"} : QueueTask(i, kind)
    \/ \E i \in AccountTaskIds : TaskTimeout(i)
    \/ \E i \in AccountTaskIds : TaskThrows(i)
    \/ \E i \in AccountTaskIds : CreateAccountDone(i)
    \/ \E i \in AccountTaskIds : ClearSessionsAndPreKeys(i)
    \/ \E i \in AccountTaskIds, few \in BOOLEAN : GetMyKeysDone(i, few)
    \/ \E i \in AccountTaskIds : GenerateKeys(i)
    \/ \E i \in AccountTaskIds : RegisterKeysAccepted(i)
    \/ \E i \in AccountTaskIds : RegisterKeysRejected(i)
    \/ \E i \in AccountTaskIds : ConfirmKeys(i)
    \/ \E i \in AccountTaskIds : RotateCancels(i)
    \/ \E i \in AccountTaskIds : RotateGenerates(i)
    \/ \E i \in AccountTaskIds : RotateStores(i)
    \/ \E i \in AccountTaskIds : SetSignedPreKeyAccepted(i)
    \/ \E i \in AccountTaskIds : SetSignedPreKeyRejected(i)
    \/ \E i \in AccountTaskIds : RotateConfirms(i)

AccountSpec == Init /\ [][AccountNext]_vars

(* ------------------------------- claims -------------------------------- *)
\* A wire message as its sender's encryptMessageFor made it.
Honest(m) == m.tampered = ""

Message(id) == CHOOSE m \in net : m.id = id

\* C1. Round trip: what the receiver's callback gets for a wire message that
\* arrives as the sender's encryptMessageFor made it is the sender's plaintext.
C1_RoundTrip ==
    \A r \in results : Honest(Message(r.id)) => r.pt = Message(r.id).pt

\* C2. Tamper detection: a wire message whose ciphertext or MAC is not what
\* the sender produced is never decrypted and handed to the callback.
C2_TamperDetection ==
    \A r \in results : Message(r.id).tampered \notin {"mac", "ct"}

\* C3. One-time prekey single use: once a handshake message referencing
\* prekey id k has given B its session, B's store holds no key pair for k.
C3_PreKeySingleUse ==
    \A k \in PreKeyIds :
        (session["B"].open /\ session["B"].ephemeralKeyPair = PreKeyPair(k)) => k \notin preKeys

\* C4. Replay rejection: a wire message is decrypted and handed to the
\* callback by at most one of the calls that receive it.
C4_ReplayRejected ==
    \A r1, r2 \in results : (r1.party = r2.party /\ r1.id = r2.id) => r1.at = r2.at

\* C5. Out-of-order delivery: a message that arrives before a message its
\* sender made earlier on the same chain decrypts to its own plaintext.
C5_OutOfOrder ==
    \A r \in results : \A m0 \in net :
        LET m == Message(r.id)
        IN (/\ Honest(m) /\ Honest(m0)
            /\ m0.src = m.src /\ m0.ephemeralKey = m.ephemeralKey /\ m0.id < m.id
            /\ \A r0 \in results : r0.id = m0.id => r0.at > r.at)
           => r.pt = m.pt

\* A round trip: B's callback got a message of A as A made it, and A's
\* callback got one that B made after that.
RoundTrip ==
    \E r1, r2 \in results :
        /\ r1.party = "B" /\ Honest(Message(r1.id))
        /\ r2.party = "A" /\ Honest(Message(r2.id))
        /\ r1.at < r2.at

\* C6. Self-healing ratchet: after one round trip in which only messages
\* the two devices made were received, both stored sessions hold the same
\* rootKey.
C6_RootKeysAgree ==
    (RoundTrip /\ \A r \in results : Honest(Message(r.id)))
        => session["A"].rootKey = session["B"].rootKey

\* A stored session as initSession left it: the first chain under the local
\* key, the placeholder under the remote key.
Fresh(s) ==
    /\ s.open
    /\ DOMAIN s.chains = {s.ephemeralKeyPair, s.lastRemoteEphemeralKey}
    /\ s.chains[s.ephemeralKeyPair].counter = -1
    /\ s.chains[s.lastRemoteEphemeralKey].counter = PlaceholderCounter

\* The two stored sessions come from the same handshake.
Paired ==
    /\ Fresh(session["A"]) /\ Fresh(session["B"])
    /\ session["A"].ephemeralKeyPair = session["B"].lastRemoteEphemeralKey
    /\ session["B"].ephemeralKeyPair = session["A"].lastRemoteEphemeralKey

\* C7. Handshake key agreement: the initiator's and the responder's
\* initSession of one handshake derive the same rootKey and first chain key.
C7_HandshakeAgreement ==
    Paired => /\ session["A"].rootKey = session["B"].rootKey
              /\ session["A"].chains[session["A"].ephemeralKeyPair].key
                   = session["B"].chains[session["B"].ephemeralKeyPair].key

C7_Witness == Paired /\ session["B"].rootKey # ""

\* An operation's last continuation runs: it saves its session.
Saves(i) == ops[i].pc \in {"encHkdf", "decHkdf"} /\ ops'[i].pc = "idle"

\* C8. Per-session mutual exclusion: an operation saves over the session it
\* read, never over one that another operation saved in between.
C8_NoLostUpdate ==
    [][\A i \in OpIds : Saves(i) => session[ops[i].party] = ops[i].base]_vars

\* C9. Failure atomicity: a step in which a receive throws leaves the stored
\* session of the receiver as it was.
C9_FailureAtomicity ==
    [][\A e \in errors' \ errors : session'[e.party] = session[e.party]]_vars

\* C10. Message-key erasure: the stored chain of a decrypted message holds
\* no key for its counter, and no two messages are encrypted under one key.
C10_KeyErasure ==
    /\ \A r \in results :
          LET m == Message(r.id)
              s == session[r.party]
          IN (s.open /\ m.ephemeralKey \in DOMAIN s.chains)
             => m.counter \notin DOMAIN s.chains[m.ephemeralKey].messageKeys
    /\ \A m1, m2 \in net : (Honest(m1) /\ Honest(m2) /\ m1.id # m2.id) => m1.key # m2.key

\* C11. Chain counter monotonicity: from one state to the next, the counter
\* of a chain that stays in a stored session does not decrease.
C11_CounterMonotonic ==
    [][\A p \in Party :
         \A k \in DOMAIN session[p].chains \cap DOMAIN session'[p].chains :
             session'[p].chains[k].counter >= session[p].chains[k].counter]_vars

\* The fills an operation has pending.
PendingFills(o) == {f \in {o.fillPrev, o.fillMsg} : f.on}

\* C12. Ratchet overflow cap: a fill is not run for a counter beyond the
\* cap ahead of the chain (the cap taken as the largest counter but one that
\* the network can name): such a message is refused.
C12_OverflowCap ==
    \A i \in OpIds : \A f \in PendingFills(ops[i]) :
        f.target - ops[i].s.chains[f.chain].counter <= MaxCounter

\* C13. Encrypt without a session: an encryptMessageFor call that finds no
\* stored session does not go on to make a session or a wire message.
C13_NoSessionError ==
    \A i \in OpIds : ops[i].pc \in {"encInit", "encHkdf"} => ~ops[i].viaPreKey

\* C20. fillMessageKeys completion: when the continuation after
\* fillMessageKeys(chain, target) runs, in decryptWhisperMessage or in
\* maybeStepRatchet, the chain's counter has reached the target.
C20_FillComplete ==
    [][\A i \in OpIds :
         /\ (ops[i].pc = "fillMsg" /\ ops'[i].pc = "decHkdf")
               => ops'[i].s.chains[ops[i].m.ephemeralKey].counter >= ops[i].m.counter
         /\ (ops[i].pc = "fillPrev" /\ ops'[i].pc = "hkdf1"
               /\ ops[i].s.lastRemoteEphemeralKey \in DOMAIN ops'[i].s.chains)
               => ops'[i].s.chains[ops[i].s.lastRemoteEphemeralKey].counter
                    >= ops[i].m.previousCounter]_vars

\* A handleIncomingPushMessageProto call that threw before its first
\* asynchronous call: it was made and left no closure behind.
ThrewAtOnce == nDeliver' # nDeliver /\ ops' = ops

\* The wire message's first byte is not the version byte.
BadFirstByte(m) == IF m.type = 3 THEN ~m.outerOk ELSE ~m.versionOk

\* C16. Version rejection: a wire message whose first byte is not the
\* version byte never gets past the synchronous part of its receive call, and
\* a receive call that throws there leaves sessions and prekeys as they were.
C16_VersionRejected ==
    [][/\ \A m \in net : BadFirstByte(m) =>
             /\ \A i \in OpIds : ops'[i].m # m
             /\ \A r \in results' : r.id # m.id
       /\ ThrewAtOnce => (session' = session /\ preKeys' = preKeys)]_vars

C16_Witness ==
    \E e \in errors : /\ BadFirstByte(Message(e.id))
                      /\ e.what \in {"Bad version byte", "Bad version number"}

\* The handshake message names a prekey id its receiver holds no key pair for.
MissingPreKey(m) == m.type = 3 /\ m.outerOk /\ m.preKeyId \notin preKeys

\* C17. Unknown prekey: a handshake message naming a prekey id the store
\* holds no key pair for starts no initSession and no decrypt, and the call
\* that receives it changes no session.
C17_UnknownPreKey ==
    [][\A m \in net : MissingPreKey(m) =>
          /\ \A i \in OpIds : ops'[i].m # m
          /\ \A r \in results' : r.id # m.id
          /\ (\E e \in errors' \ errors : e.id = m.id) => session' = session]_vars

C17_Witness ==
    \E e \in errors : MissingPreKey(Message(e.id)) /\ e.what = "Missing preKey"

\* The call that takes this step.
Stepping(i) == sessionCalls'[i] # sessionCalls[i]

\* The encoded number of the call that takes this step.
SteppingNumber(i) ==
    IF sessionCalls[i].pc = "idle" THEN sessionCalls'[i].encodedNumber
    ELSE sessionCalls[i].encodedNumber

C14_BoundedRetention ==
    \A p \in Party : Len(session[p].oldRatchetList) <= RetentionCap
\* A sequence of requests in arrival order: requests are numbered as they arrive.
InArrivalOrder(s) == \A i, j \in DOMAIN s : i < j => s[i] < s[j]

DroppedForRetry ==
    \/ lastDrop.kind = "close" /\ lastDrop.code # 3000
    \/ lastDrop.kind = "failure" /\ lastDrop.err \in {"timeout", "http500", "http-1"}

\* C19: whenever the authenticated socket was dropped by a close with a
\* code other than 3000, or by a connection failure with a non-HTTP error
\* or HTTP code 500 or -1, and the manager is online with no authenticated
\* process (and a connection attempt is left within the bound), a new
\* authenticated connection attempt is eventually started, unless the
\* manager goes offline first. A failed attempt is such a drop again, so
\* the attempts repeat until one succeeds.
C19_Reconnects ==
    (DroppedForRetry /\ authenticated = 0 /\ ~isOffline /\ nextProcess <= MaxProcesses)
        ~> (authenticated # 0 \/ isOffline)

\* A reconnect() started the authenticated process, and it connected.
C19_Witness ==
    \E p \in ProcessIds :
        /\ authenticated = p
        /\ processes[p].via = "reconnect"
        /\ processes[p].state = "open"
        /\ status = "OPEN"

\* C28: whenever the status is OPEN the manager holds an authenticated
\* process and that process has connected; in particular the status is not
\* OPEN after onOffline or after a newer authenticate replaced the process.
C28_StatusConsistent ==
    status = "OPEN" => authenticated # 0 /\ processes[authenticated].state = "open"

\* C29: no strictAssert of the manager fails: when the failure handler of
\* a connection attempt runs, this.authenticated is that attempt's process.
C29_AssertionsHold == failedAsserts = {}

\* An operation leaves the handshake: initSession's HKDF resolved.
HandshakeDone(i) == ops[i].pc \in {"encInit", "decInit"} /\ ops'[i].pc # ops[i].pc

\* The base key of the handshake operation o runs: the initiator's own, or
\* the one the responder reads in the handshake message.
HandshakeBaseKey(o) == IF o.pc = "encInit" THEN o.baseKey ELSE o.m.baseKey

\* C22. Initial session layout: the session a handshake saves, on the
\* initiator and on the responder alike, holds a chain with counter -1
\* and the first chain key under the initiator's base key, and the
\* placeholder chain with the sentinel counter under the responder's prekey.
C22_InitialLayout ==
    [][\A i \in OpIds : HandshakeDone(i) =>
          LET o == ops[i]
              s == session'[o.party]
              base == HandshakeBaseKey(o)
              pre == PreKeyPair(o.m.preKeyId)
          IN /\ s.open
             /\ base \in DOMAIN s.chains
             /\ s.chains[base].counter = -1
             /\ s.chains[base].key # ""
             /\ pre \in DOMAIN s.chains
             /\ s.chains[pre].counter = PlaceholderCounter]_vars

\* The second derivation of a ratchet step ends: maybeStepRatchet's callback.
StepEnds(i) == ops[i].pc = "hkdf2" /\ ops'[i].pc # "hkdf2"

\* C23. DH ratchet step post-state: when maybeStepRatchet calls back after
\* a step for the remote key R, the session holds a receive chain with
\* counter -1 under R, a send chain with counter -1 under a new local key
\* that is the current ephemeralKeyPair, no chain under the previous local
\* key, lastRemoteEphemeralKey = R, and as rootKey the root output of the
\* second derivation, salted with the root output of the first.
C23_StepPostState ==
    [][\A i \in OpIds : StepEnds(i) =>
          LET before == ops[i].base
              s == ops'[i].s
              R == ops[i].m.ephemeralKey
              first == HKDF(ECDHE(R, before.ephemeralKeyPair), before.rootKey, "WhisperRatchet")
              second == HKDF(ECDHE(R, s.ephemeralKeyPair), first[1], "WhisperRatchet")
          IN /\ R \notin DOMAIN before.chains
             /\ R \in DOMAIN s.chains
             /\ s.chains[R] = NewChain(-1, first[2])
             /\ s.ephemeralKeyPair # before.ephemeralKeyPair
             /\ s.ephemeralKeyPair \notin DOMAIN before.chains
             /\ s.ephemeralKeyPair \in DOMAIN s.chains
             /\ s.chains[s.ephemeralKeyPair] = NewChain(-1, second[2])
             /\ before.ephemeralKeyPair \notin DOMAIN s.chains
             /\ s.lastRemoteEphemeralKey = R
             /\ s.rootKey = second[1]]_vars

\* An operation is past a ratchet step for its message's key.
C23_Witness ==
    \E i \in OpIds :
        /\ ops[i].pc \in {"fillMsg", "decHkdf"}
        /\ ops[i].m.ephemeralKey \notin DOMAIN ops[i].base.chains
        /\ ops[i].s.lastRemoteEphemeralKey = ops[i].m.ephemeralKey

\* C24. Send counters: the messages a device sends on one send chain carry
\* the counters 0, 1, 2, ...: every counter is a number from 0 on, and no
\* two messages of one chain carry the same counter.
C24_SendCounters ==
    \A m1, m2 \in net :
        (Honest(m1) /\ Honest(m2) /\ m1.src = m2.src /\ m1.ephemeralKey = m2.ephemeralKey)
            => /\ m1.counter >= 0
               /\ m1.id # m2.id => m1.counter # m2.counter

\* The stored session s has the chain of the sent message m advanced to m's
\* counter or beyond (as JavaScript compares: an undefined counter is never
\* reached) and holds no message key for it.
PersistedPast(s, m) ==
    /\ m.ephemeralKey \in DOMAIN s.chains
    /\ ~JsLess(s.chains[m.ephemeralKey].counter, m.counter)
    /\ m.counter # JsUndefined
    /\ s.chains[m.ephemeralKey].counter # JsUndefined
    /\ m.counter \notin DOMAIN s.chains[m.ephemeralKey].messageKeys

\* C25. Persist before return: in the step in which encrypt hands a wire
\* message to its caller, the session stored for the sender has the
\* message's send chain advanced to the message's counter or beyond, with
\* no stored message key for that counter.
C25_PersistBeforeReturn ==
    [][\A m \in net' \ net : Honest(m) => PersistedPast(session'[m.src], m)]_vars

\* The wire message m, as its sender made it, is one of the sender's
\* previous send chain for the receiver's session s: the receiver (the
\* initiator of the session) began with the sender's prekey as remote key
\* and has stepped its ratchet to a newer ephemeral key of that sender.
LateOnPreviousChain(m, s) ==
    LET FirstKeys == {PreKeyPair(k) : k \in PreKeyIds}
    IN /\ Honest(m)
       /\ m.type = 1
       /\ s.open
       \* the chain of m is the one the receiver's session began with
       /\ m.ephemeralKey \in FirstKeys
       /\ s.ephemeralKeyPair \notin FirstKeys
       \* and the receiver has stepped to a key the sender used later
       /\ s.lastRemoteEphemeralKey \notin FirstKeys
       /\ \E n \in net : /\ Honest(n) /\ n.src = m.src /\ n.id > m.id
                          /\ n.ephemeralKey = s.lastRemoteEphemeralKey

\* C21. No receivable key lost on rotation: a message the peer sent on its
\* previous send chain and that is delivered after the receiver stepped to
\* the peer's new ephemeral key starts no ratchet step, and what the
\* receiver's callback gets for it is the sender's plaintext.
C21_LateMessageDecrypts ==
    [][\A i \in OpIds :
          /\ \A m \in net :
                (/\ ops[i].pc = "idle" /\ ops'[i].pc # "idle" /\ ops'[i].m = m
                 /\ LateOnPreviousChain(m, session[m.dst]))
                    => ops'[i].pc \in {"fillMsg", "decHkdf"}
          /\ (ops[i].pc = "decHkdf" /\ LateOnPreviousChain(ops[i].m, ops[i].base))
                => \A r \in results' \ results : r.pt = ops[i].m.pt]_vars

\* The push WebSockets that are connecting or open.
LivePushSockets == {k \in PushSocketIds : pushSockets[k] \in {"connecting", "open"}}

\* C26. Single push subscription: the semaphore never exceeds 1, and at
\* most one push WebSocket is live or scheduled by a timer.
C26_SinglePush ==
    /\ subscribeToPushMessageSemaphore <= 1
    /\ Cardinality(LivePushSockets) + pushTimers <= 1

\* How often the number n is in the sequence s.
Occurrences(s, n) == Cardinality({i \in DOMAIN s : s[i] = n})

\* C27. sendMessageToNumbers completion: the final callback is called at
\* most once, and once when every request of the call has been answered;
\* when it is called, each number of the list is exactly once in the
\* success and failure lists together; the send of each turn of the loop is
\* for that turn's number and for the devices of that number.
C27_Completion ==
    /\ callbackCalls <= 1
    /\ (sendNumbers # <<>> /\ sendPending = {}) => callbackCalls = 1
    /\ callbackCalls >= 1 =>
          \A i \in DOMAIN sendNumbers :
              Occurrences(successfulNumbers, sendNumbers[i])
                  + Occurrences(sendErrors, sendNumbers[i]) = 1
    /\ \A r \in sendPending :
          r.kind = "send" => r.for = sendNumbers[r.turn] /\ r.devices = r.for

\* C30. Signed prekey confirmation: a signed prekey that is stored with
\* confirmed = true is one whose upload the server accepted, and a key
\* whose upload failed is not stored as confirmed.
C30_ConfirmedAfterUpload ==
    \A k \in SignedKeyIds :
        signedPreKeys[k].confirmed =>
            /\ <<k, signedPreKeys[k].keyPair>> \in uploaded
            /\ <<k, signedPreKeys[k].keyPair>> \notin rejected

\* One key is stored confirmed, and another, whose upload failed, is
\* stored unconfirmed.
C30_Witness ==
    /\ \E k \in SignedKeyIds : signedPreKeys[k].confirmed
    /\ \E k \in SignedKeyIds :
          /\ <<k, signedPreKeys[k].keyPair>> \in rejected
          /\ ~signedPreKeys[k].confirmed

====
